---- MODULE Spec2Model ----
(***************************************************************************)
(* securethenews: the `scan` management command (sites/management/        *)
(* commands/scan.py) and the Scan model's scoring (sites/models.py).       *)
(*                                                                         *)
(* Python values are encoded as follows.  An optional value is a sequence  *)
(* of length 0 (None) or 1 (the value), so that None can be compared with  *)
(* booleans and integers.  A dict is a function on its keys; a lookup of   *)
(* a key outside the DOMAIN is a KeyError.  A header name is the sequence  *)
(* of its character codes, so that str.lower() is computed, not assumed.   *)
(***************************************************************************)
EXTENDS Integers, Sequences, FiniteSets, TLC

VARIABLES
    siteTable,   \* the Site table: the set of known domains
    store,       \* the Scan table: committed rows, oldest first
    store0,      \* the Scan table as it was when the behaviour started
    probeEnv,    \* what the pshtt process does for each domain
    web,         \* what an HTTP GET of each url does
    argv,        \* options['sites'] of the running command
    pc,          \* position of the running operation
    sites,       \* Command.handle: the local `sites`
    idx,         \* Command.handle: position of the `for site in sites` loop
    out,         \* lines written to self.stdout
    pending,     \* rows saved inside the open transaction.atomic() block
    probed,      \* domains for which the pshtt process was launched, in order
    results,     \* pshtt_results: the return value of pshtt(), or the detector's input
    stdout,      \* scan: the local `stdout`
    stderr,      \* scan: the local `stderr`
    error,       \* the exception that ended the operation, None if none
    onion_ret,   \* is_onion_available: the returned value and the urls fetched
    obj,         \* a Scan instance in memory
    view         \* the last read of obj.grade: the score it saw and its value

vars == <<siteTable, store, store0, probeEnv, web, argv, pc, sites, idx, out,
          pending, probed, results, stdout, stderr, error, onion_ret, obj, view>>

----------------------------------------------------------------------------
(* Python values *)

None == <<>>
Some(v) == <<v>>
True == Some(TRUE)
False == Some(FALSE)
NullBoolean == {True, False, None}

\* truth value of an optional bool: None and False are falsy
truthy(b) == b # None /\ b[1]

\* truth value of an optional int: None and 0 are falsy
truthy_int(n) == n # None /\ n[1] # 0

\* str.lower() on a sequence of ASCII codes
lower(s) == [i \in DOMAIN s |-> IF s[i] \in 65..90 THEN s[i] + 32 ELSE s[i]]

\* 'onion-location'
ONION_LOCATION == <<111, 110, 105, 111, 110, 45, 108, 111, 99, 97, 116, 105, 111, 110>>
\* 'Onion-Location'
HdrOnionTitle == <<79, 110, 105, 111, 110, 45, 76, 111, 99, 97, 116, 105, 111, 110>>
\* 'ONION-LOCATION'
HdrOnionUpper == <<79, 78, 73, 79, 78, 45, 76, 79, 67, 65, 84, 73, 79, 78>>
\* 'Server'
HdrServer == <<83, 101, 114, 118, 101, 114>>

TIMEOUT_REQUESTS == 5

----------------------------------------------------------------------------
(* Onion availability detector: scan.py, is_onion_loc_in_meta_tag and      *)
(* is_onion_available                                                      *)

ENDPOINT_KEYS == <<"https", "httpswww">>

\* xpath_onion_content comparing the http-equiv value without regard to case
xpath_onion_content_nocase(metas) ==
    LET hit(m) == /\ "http-equiv" \in DOMAIN m
                  /\ m["http-equiv"] \in {"onion-location", "Onion-Location"}
                  /\ "content" \in DOMAIN m
        hits == SelectSeq(metas, hit)
    IN  [i \in DOMAIN hits |-> hits[i]["content"]]

\* the <meta> elements selected by //meta[@http-equiv="onion-location"]/@content:
\* the content attributes of the meta elements whose http-equiv is exactly
\* "onion-location"; an element without a content attribute selects nothing
xpath_onion_content(metas) ==
    LET hit(m) == /\ "http-equiv" \in DOMAIN m
                  /\ m["http-equiv"] = "onion-location"
                  /\ "content" \in DOMAIN m
        hits == SelectSeq(metas, hit)
    IN  [i \in DOMAIN hits |-> hits[i]["content"]]

\* is_onion_loc_in_meta_tag(url): True / False / None
is_onion_loc_in_meta_tag(url, w) ==
    LET r == w[url] IN
    IF r.kind = "RequestException" THEN None
    ELSE IF r.kind = "ParserError" THEN None
    ELSE LET tags == xpath_onion_content(r.metas) IN
         IF Len(tags) >= 1 THEN True ELSE False

\* pshtt_results["endpoints"][key][field] raises KeyError
key_error(res, key, field) ==
    \/ "endpoints" \notin DOMAIN res
    \/ key \notin DOMAIN res["endpoints"]
    \/ field \notin DOMAIN res["endpoints"][key]

\* header_loop giving up after the first endpoint that has headers
RECURSIVE header_loop_first_only(_, _)
header_loop_first_only(res, i) ==
    IF i > Len(ENDPOINT_KEYS) THEN FALSE
    ELSE IF key_error(res, ENDPOINT_KEYS[i], "headers")
         THEN header_loop_first_only(res, i + 1)
    ELSE LET headers == res["endpoints"][ENDPOINT_KEYS[i]]["headers"] IN
         ONION_LOCATION \in {lower(k) : k \in headers}

\* the first loop of is_onion_available, from position i: TRUE iff it returns True
RECURSIVE header_loop(_, _)
header_loop(res, i) ==
    IF i > Len(ENDPOINT_KEYS) THEN FALSE
    ELSE IF key_error(res, ENDPOINT_KEYS[i], "headers") THEN header_loop(res, i + 1)
    ELSE LET headers == res["endpoints"][ENDPOINT_KEYS[i]]["headers"] IN
         IF ONION_LOCATION \in {lower(k) : k \in headers} THEN TRUE
         ELSE header_loop(res, i + 1)

\* meta_loop returning at the first endpoint it fetched, failed or not
RECURSIVE meta_loop_first_fetch(_, _, _, _, _)
meta_loop_first_fetch(res, w, i, onion_available, fetched) ==
    IF i > Len(ENDPOINT_KEYS) THEN [ret |-> onion_available, fetched |-> fetched]
    ELSE IF key_error(res, ENDPOINT_KEYS[i], "url")
         THEN meta_loop_first_fetch(res, w, i + 1, onion_available, fetched)
    ELSE LET url == res["endpoints"][ENDPOINT_KEYS[i]]["url"]
             r == is_onion_loc_in_meta_tag(url, w)
         IN  [ret |-> r, fetched |-> Append(fetched, url)]

\* the second loop of is_onion_available, from position i, with the current
\* value of onion_available and the urls fetched so far
RECURSIVE meta_loop(_, _, _, _, _)
meta_loop(res, w, i, onion_available, fetched) ==
    IF i > Len(ENDPOINT_KEYS) THEN [ret |-> onion_available, fetched |-> fetched]
    ELSE IF key_error(res, ENDPOINT_KEYS[i], "url")
         THEN meta_loop(res, w, i + 1, onion_available, fetched)
    ELSE LET url == res["endpoints"][ENDPOINT_KEYS[i]]["url"]
             r == is_onion_loc_in_meta_tag(url, w)
         IN  IF r # None THEN [ret |-> r, fetched |-> Append(fetched, url)]
             ELSE meta_loop(res, w, i + 1, r, Append(fetched, url))

\* is_onion_available(pshtt_results): the value returned and the urls fetched
is_onion_available(res, w) ==
    IF header_loop(res, 1) THEN [ret |-> True, fetched |-> <<>>]
    ELSE meta_loop(res, w, 1, False, <<>>)

----------------------------------------------------------------------------
(* Scoring: models.py, class Scan *)

\* assert 0 <= score <= 100 in Scan._score
MAX_SCORE == 100

\* the columns of Scan that hold nullable booleans
NULL_BOOLEAN_FIELDS == {"onion_available", "valid_https", "downgrades_https",
                        "defaults_to_https", "hsts", "hsts_entire_domain",
                        "hsts_preload_ready", "hsts_preloaded"}

\* Scan(**kwargs): an instance in memory; score = IntegerField(default=0)
Scan(site, live, valid_https, downgrades_https, defaults_to_https, hsts, hsts_max_age, hsts_entire_domain, hsts_preload_ready, hsts_preloaded, onion_available, pshtt_stdout, pshtt_stderr) ==
    [site |-> site, live |-> live, onion_available |-> onion_available,
     valid_https |-> valid_https, downgrades_https |-> downgrades_https,
     defaults_to_https |-> defaults_to_https, hsts |-> hsts,
     hsts_max_age |-> hsts_max_age, hsts_entire_domain |-> hsts_entire_domain,
     hsts_preload_ready |-> hsts_preload_ready, hsts_preloaded |-> hsts_preloaded,
     score |-> 0, pshtt_stdout |-> pshtt_stdout, pshtt_stderr |-> pshtt_stderr]

\* score_value with the downgrade penalty kept under defaults_to_https
score_value_penalty_kept(self) ==
    LET eighteen_weeks == 18 * 7 * 24 * 60 * 60 IN
    IF truthy(self.valid_https)
    THEN IF truthy(self.defaults_to_https)
         THEN (IF truthy(self.downgrades_https) THEN 50 ELSE 70)
              + (IF truthy(self.hsts) THEN 4 ELSE 0)
              + (IF truthy_int(self.hsts_max_age) /\ self.hsts_max_age[1] >= eighteen_weeks
                 THEN 4 ELSE 0)
              + (IF truthy(self.hsts_entire_domain) THEN 6 ELSE 0)
              + (IF truthy(self.hsts_preload_ready) THEN 4 ELSE 0)
              + (IF truthy(self.hsts_preloaded) THEN 4 ELSE 0)
              + (IF truthy(self.onion_available) THEN 4 ELSE 0)
         ELSE IF truthy(self.downgrades_https) THEN 30 ELSE 50
    ELSE 0

\* score_value with the max-age bonus proportional to the max-age
score_value_age_scaled(self) ==
    LET eighteen_weeks == 18 * 7 * 24 * 60 * 60 IN
    IF truthy(self.valid_https)
    THEN IF truthy(self.defaults_to_https)
         THEN 70
              + (IF truthy(self.hsts) THEN 4 ELSE 0)
              + (IF truthy_int(self.hsts_max_age)
                 THEN 4 * (self.hsts_max_age[1] \div eighteen_weeks) ELSE 0)
              + (IF truthy(self.hsts_entire_domain) THEN 6 ELSE 0)
              + (IF truthy(self.hsts_preload_ready) THEN 4 ELSE 0)
              + (IF truthy(self.hsts_preloaded) THEN 4 ELSE 0)
              + (IF truthy(self.onion_available) THEN 4 ELSE 0)
         ELSE IF truthy(self.downgrades_https) THEN 30 ELSE 50
    ELSE 0

\* the value Scan._score computes before its assertion
score_value(self) ==
    LET eighteen_weeks == 18 * 7 * 24 * 60 * 60 IN
    IF truthy(self.valid_https)
    THEN IF truthy(self.defaults_to_https)
         THEN 70
              + (IF truthy(self.hsts) THEN 4 ELSE 0)
              + (IF truthy_int(self.hsts_max_age) /\ self.hsts_max_age[1] >= eighteen_weeks
                 THEN 4 ELSE 0)
              + (IF truthy(self.hsts_entire_domain) THEN 6 ELSE 0)
              + (IF truthy(self.hsts_preload_ready) THEN 4 ELSE 0)
              + (IF truthy(self.hsts_preloaded) THEN 4 ELSE 0)
              + (IF truthy(self.onion_available) THEN 4 ELSE 0)
         ELSE IF truthy(self.downgrades_https) THEN 30 ELSE 50
    ELSE 0

\* Scan._score: the instance afterwards, and whether the assertion failed
_score(self) ==
    LET score == score_value(self) IN
    IF 0 <= score /\ score <= MAX_SCORE
    THEN [raised |-> FALSE, self |-> [self EXCEPT !.score = score]]
    ELSE [raised |-> TRUE, self |-> self]

\* grade_letter with A+ starting at 95
grade_letter_ge95(score) ==
    IF score >= 95 THEN "A+"
    ELSE IF score >= 85 THEN "A"
    ELSE IF score >= 80 THEN "A-"
    ELSE IF score >= 75 THEN "B+"
    ELSE IF score >= 65 THEN "B"
    ELSE IF score >= 60 THEN "B-"
    ELSE IF score >= 55 THEN "C+"
    ELSE IF score >= 45 THEN "C"
    ELSE IF score >= 40 THEN "C-"
    ELSE IF score >= 35 THEN "D+"
    ELSE IF score >= 25 THEN "D"
    ELSE IF score >= 20 THEN "D-"
    ELSE "F"

\* the letter of Scan.grade
grade_letter(score) ==
    IF score > 95 THEN "A+"
    ELSE IF score >= 85 THEN "A"
    ELSE IF score >= 80 THEN "A-"
    ELSE IF score >= 75 THEN "B+"
    ELSE IF score >= 65 THEN "B"
    ELSE IF score >= 60 THEN "B-"
    ELSE IF score >= 55 THEN "C+"
    ELSE IF score >= 45 THEN "C"
    ELSE IF score >= 40 THEN "C-"
    ELSE IF score >= 35 THEN "D+"
    ELSE IF score >= 25 THEN "D"
    ELSE IF score >= 20 THEN "D-"
    ELSE "F"

\* the class_name of Scan.grade, None when no branch assigns it
grade_class_name(score) ==
    IF score >= 80 THEN Some("grade-a")
    ELSE IF score >= 60 THEN Some("grade-b")
    ELSE IF score >= 40 THEN Some("grade-c")
    ELSE IF score >= 20 THEN Some("grade-d")
    ELSE IF score >= 0 THEN Some("grade-f")
    ELSE None

\* Scan.grade
grade(self) ==
    [grade |-> grade_letter(self.score), class_name |-> grade_class_name(self.score)]

----------------------------------------------------------------------------
(* The Site table and the external processes *)

\* longest options['sites'] explored
MaxArgs == 2
\* most rows in the Scan table before the command runs
MaxOldRows == 1

\* the rows the Site table can hold: name (character codes) and domain
SITE_A == [name |-> <<90>>, domain |-> "a.example"]
SITE_B == [name |-> <<77, 66>>, domain |-> "b.example"]
SiteRows == {SITE_A, SITE_B}

\* the domain names a caller can type; c.example is never a known site
DomainNames == {"a.example", "b.example", "c.example"}

\* a < b for strings given as character codes
RECURSIVE str_lt(_, _)
str_lt(a, b) ==
    IF Len(b) = 0 THEN FALSE
    ELSE IF Len(a) = 0 THEN TRUE
    ELSE IF a[1] # b[1] THEN a[1] < b[1]
    ELSE str_lt(Tail(a), Tail(b))

\* Site.objects.all(): every row, in Meta.ordering = ['name']
RECURSIVE objects_all(_)
objects_all(table) ==
    IF table = {} THEN <<>>
    ELSE LET first == CHOOSE r \in table : \A q \in table \ {r} : str_lt(r.name, q.name)
         IN  <<first>> \o objects_all(table \ {first})

\* Site.objects.get(domain=domain_name): the row, or Site.DoesNotExist
objects_get(table, domain_name) ==
    IF \E r \in table : r.domain = domain_name
    THEN [raised |-> FALSE, site |-> CHOOSE r \in table : r.domain = domain_name]
    ELSE [raised |-> TRUE, site |-> SITE_A]

\* parsed pshtt outputs used for the process outcomes
HomeUrl(key) == IF key = "https" THEN "https://site/" ELSE "https://www.site/"

RESULTS_SECURE ==
    ("Live" :> TRUE) @@ ("Valid HTTPS" :> True) @@ ("Downgrades HTTPS" :> False)
    @@ ("Defaults to HTTPS" :> True) @@ ("HSTS" :> True)
    @@ ("HSTS Max Age" :> Some(31536000)) @@ ("HSTS Entire Domain" :> True)
    @@ ("HSTS Preload Ready" :> True) @@ ("HSTS Preloaded" :> False)
    @@ ("endpoints" :>
          (("https" :> [headers |-> {HdrServer}, url |-> HomeUrl("https")])
           @@ ("httpswww" :> [headers |-> {HdrServer}, url |-> HomeUrl("httpswww")])))

RESULTS_DOWN ==
    ("Live" :> FALSE) @@ ("Valid HTTPS" :> None) @@ ("Downgrades HTTPS" :> None)
    @@ ("Defaults to HTTPS" :> None) @@ ("HSTS" :> None)
    @@ ("HSTS Max Age" :> None) @@ ("HSTS Entire Domain" :> None)
    @@ ("HSTS Preload Ready" :> None) @@ ("HSTS Preloaded" :> None)
    @@ ("endpoints" :>
          (("https" :> [headers |-> {}, url |-> HomeUrl("https")])
           @@ ("httpswww" :> [headers |-> {}, url |-> HomeUrl("httpswww")])))

\* what the pshtt child process can do: whether Popen could start it, its
\* exit status, and its stdout (the text, and what json.loads makes of it)
Proc(launch, returncode, out_text, json, err_text) ==
    [launch |-> launch, returncode |-> returncode, stdout |-> out_text,
     json |-> json, stderr |-> err_text]
JsonInvalid == [kind |-> "invalid", items |-> <<>>]
JsonArray(items) == [kind |-> "array", items |-> items]

ProcOutcomes ==
    { Proc(FALSE, 127, "", JsonInvalid, ""),
      Proc(TRUE, 0, "Traceback", JsonInvalid, "err"),
      Proc(TRUE, 0, "[]", JsonArray(<<>>), ""),
      Proc(TRUE, 0, "[{secure}]", JsonArray(<<RESULTS_SECURE>>), "warn"),
      Proc(TRUE, 1, "[{down}]", JsonArray(<<RESULTS_DOWN>>), "killed"),
      Proc(TRUE, 0, "[{down},{secure}]", JsonArray(<<RESULTS_DOWN, RESULTS_SECURE>>), "") }

\* what the node child process of blacklight can do
NodeOutcomes == {"OSError", "BdbQuit", "exited"}

----------------------------------------------------------------------------
(* scan.py: pshtt, blacklight, scan, Command.handle *)

Raise(exc) == [raised |-> TRUE, exc |-> Some(exc), value |-> <<>>]
Return(v) == [raised |-> FALSE, exc |-> None, value |-> v]

\* pshtt(domain): (pshtt_results, stdout, stderr), or the exception of Popen
\* or of json.loads(stdout)[0]; the exit status is not looked at
pshtt(domain, env) ==
    LET p == env[domain] IN
    IF ~p.launch THEN Raise("OSError")
    ELSE IF p.json.kind = "invalid" THEN Raise("JSONDecodeError")
    ELSE IF Len(p.json.items) = 0 THEN Raise("IndexError")
    ELSE Return(<<p.json.items[1], p.stdout, p.stderr>>)

\* blacklight(domain): runs node on scan.js, stops in breakpoint(), and falls
\* off its end: the value returned is None
blacklight(domain, node) ==
    IF node = "OSError" THEN Raise("OSError")
    ELSE IF node = "BdbQuit" THEN Raise("BdbQuit")
    ELSE Return(None)

\* a, b, c = value
unpack3(value) ==
    IF Len(value) # 3 THEN Raise("TypeError") ELSE Return(value)

\* save inserting the instance as it is, without the call of _score
save_keep_score(self) == Return(self)

\* Scan.save(): the row inserted, or the AssertionError of _score
save(self) ==
    LET r == _score(self) IN
    IF r.raised THEN Raise("AssertionError") ELSE Return(r.self)

\* the keys scan() reads from pshtt_results
RESULT_KEYS == {"Live", "Valid HTTPS", "Downgrades HTTPS", "Defaults to HTTPS",
                "HSTS", "HSTS Max Age", "HSTS Entire Domain",
                "HSTS Preload Ready", "HSTS Preloaded"}

\* scan(site) after its pshtt() call returned (res, out1, err1): the call of
\* blacklight, the unpacking of its value, the Scan built and saved
scan_tail(site, res, out1, err1, node, w) ==
    LET b == blacklight(site.domain, node) IN
    IF b.raised THEN b
    ELSE LET u == unpack3(b.value) IN
    IF u.raised THEN u
    ELSE IF \E k \in RESULT_KEYS : k \notin DOMAIN res THEN Raise("KeyError")
    ELSE save(Scan(site, res["Live"], res["Valid HTTPS"], res["Downgrades HTTPS"],
                   res["Defaults to HTTPS"], res["HSTS"], res["HSTS Max Age"],
                   res["HSTS Entire Domain"], res["HSTS Preload Ready"],
                   res["HSTS Preloaded"], is_onion_available(res, w).ret,
                   u.value[2], u.value[3]))

\* get_sites passing over the names that are not known sites
RECURSIVE get_sites_skip(_, _, _)
get_sites_skip(names, table, acc) ==
    IF names = <<>> THEN Return(acc)
    ELSE LET g == objects_get(table, Head(names)) IN
         IF g.raised THEN get_sites_skip(Tail(names), table, acc)
         ELSE get_sites_skip(Tail(names), table, Append(acc, g.site))

\* the first loop of Command.handle: the Site of every name, or CommandError
\* at the first name that is not a known site
RECURSIVE get_sites(_, _, _)
get_sites(names, table, acc) ==
    IF names = <<>> THEN Return(acc)
    ELSE LET g == objects_get(table, Head(names)) IN
         IF g.raised THEN Raise("CommandError")
         ELSE get_sites(Tail(names), table, Append(acc, g.site))

\* Command.handle up to the transaction: the list `sites`
select_sites(names, table) ==
    IF names # <<>> THEN get_sites(names, table, <<>>)
    ELSE Return(objects_all(table))

\* atomic_exit swallowing the exception of the block
atomic_exit_suppress(st, pend, exc) ==
    IF exc = None THEN [store |-> st \o pend, error |-> None]
    ELSE [store |-> st, error |-> None]

\* atomic_exit whose rollback deletes the newest row of the table
atomic_exit_delete_newest(st, pend, exc) ==
    IF exc = None THEN [store |-> st \o pend, error |-> None]
    ELSE [store |-> SubSeq(st, 1, Len(st) - 1), error |-> exc]

\* leaving the `with transaction.atomic()` block: commit when the block ended
\* normally, roll back and let the exception through when it raised
atomic_exit(st, pend, exc) ==
    IF exc = None THEN [store |-> st \o pend, error |-> None]
    ELSE [store |-> st, error |-> exc]

NoResults == ("Live" :> FALSE)
NotCalled == [ret |-> None, fetched |-> <<"not called">>]
NoObj == [site |-> SITE_A]
NoView == [read |-> FALSE, score |-> 0, value |-> [grade |-> "", class_name |-> None]]

\* every url an endpoint of the model can carry
Urls == {HomeUrl(ENDPOINT_KEYS[i]) : i \in DOMAIN ENDPOINT_KEYS}

\* rows of earlier runs
OLD_ROW == save(Scan(SITE_A, TRUE, True, False, True, True, Some(31536000), False,
                     False, False, None, "[{old}]", "")).value

RECURSIVE SeqsUpTo(_, _)
SeqsUpTo(S, n) ==
    IF n = 0 THEN {<<>>}
    ELSE LET shorter == SeqsUpTo(S, n - 1) IN
         shorter \cup {Append(q, x) : q \in {t \in shorter : Len(t) = n - 1}, x \in S}

Init ==
    /\ siteTable \in SUBSET SiteRows
    /\ store0 \in SeqsUpTo({OLD_ROW}, MaxOldRows)
    /\ store = store0
    /\ probeEnv \in [{r.domain : r \in SiteRows} -> ProcOutcomes]
    /\ web = [u \in Urls |-> [kind |-> "RequestException", metas |-> <<>>]]
    /\ argv \in SeqsUpTo(DomainNames, MaxArgs)
    /\ pc = "handle"
    /\ sites = <<>>
    /\ idx = 1
    /\ out = <<>>
    /\ pending = <<>>
    /\ probed = <<>>
    /\ results = NoResults
    /\ stdout = ""
    /\ stderr = ""
    /\ error = None
    /\ onion_ret = NotCalled
    /\ obj = NoObj
    /\ view = NoView

\* Command.handle, lines 182-193: resolve the names, or fail with CommandError
HandleSelect ==
    /\ pc = "handle"
    /\ LET r == select_sites(argv, siteTable) IN
       IF r.raised
       THEN /\ error' = r.exc
            /\ pc' = "done"
            /\ UNCHANGED sites
       ELSE /\ sites' = r.value
            /\ pc' = "loop"
            /\ UNCHANGED error
    /\ UNCHANGED <<siteTable, store, store0, probeEnv, web, argv, idx, out, pending,
                   probed, results, stdout, stderr, onion_ret, obj, view>>

\* Command.handle, line 197: the progress line of the next site
HandleWrite ==
    /\ pc = "loop"
    /\ idx <= Len(sites)
    /\ out' = Append(out, <<"Scanning: ", sites[idx].domain>>)
    /\ pc' = "pshtt"
    /\ UNCHANGED <<siteTable, store, store0, probeEnv, web, argv, sites, idx, pending,
                   probed, results, stdout, stderr, error, onion_ret, obj, view>>

\* ScanPshtt launching pshtt a second time when the first call raised
ScanPshtt_retry ==
    /\ pc = "pshtt"
    /\ probed' = Append(probed, sites[idx].domain)
    /\ LET r == pshtt(sites[idx].domain, probeEnv) IN
       IF r.raised /\ Len(probed) < idx
       THEN UNCHANGED <<store, error, pending, pc, results, stdout, stderr>>
       ELSE IF r.raised
       THEN LET x == atomic_exit(store, pending, r.exc) IN
            /\ store' = x.store
            /\ error' = x.error
            /\ pending' = <<>>
            /\ pc' = "done"
            /\ UNCHANGED <<results, stdout, stderr>>
       ELSE /\ results' = r.value[1]
            /\ stdout' = r.value[2]
            /\ stderr' = r.value[3]
            /\ pc' = "blacklight"
            /\ UNCHANGED <<store, error, pending>>
    /\ UNCHANGED <<siteTable, store0, probeEnv, web, argv, sites, idx, out,
                   onion_ret, obj, view>>

\* scan, line 145: the pshtt call; an exception leaves the atomic block
ScanPshtt ==
    /\ pc = "pshtt"
    /\ probed' = Append(probed, sites[idx].domain)
    /\ LET r == pshtt(sites[idx].domain, probeEnv) IN
       IF r.raised
       THEN LET x == atomic_exit(store, pending, r.exc) IN
            /\ store' = x.store
            /\ error' = x.error
            /\ pending' = <<>>
            /\ pc' = "done"
            /\ UNCHANGED <<results, stdout, stderr>>
       ELSE /\ results' = r.value[1]
            /\ stdout' = r.value[2]
            /\ stderr' = r.value[3]
            /\ pc' = "blacklight"
            /\ UNCHANGED <<store, error, pending>>
    /\ UNCHANGED <<siteTable, store0, probeEnv, web, argv, sites, idx, out,
                   onion_ret, obj, view>>

\* scan, lines 146-168: the blacklight call and the rest of scan
ScanTail ==
    /\ pc = "blacklight"
    /\ \E node \in NodeOutcomes :
         LET r == scan_tail(sites[idx], results, stdout, stderr, node, web) IN
         IF r.raised
         THEN LET x == atomic_exit(store, pending, r.exc) IN
              /\ store' = x.store
              /\ error' = x.error
              /\ pending' = <<>>
              /\ pc' = "done"
              /\ UNCHANGED idx
         ELSE /\ pending' = Append(pending, r.value)
              /\ idx' = idx + 1
              /\ pc' = "loop"
              /\ UNCHANGED <<store, error>>
    /\ UNCHANGED <<siteTable, store0, probeEnv, web, argv, sites, out, probed,
                   results, stdout, stderr, onion_ret, obj, view>>

\* Command.handle, line 195: the loop is over and the atomic block commits
HandleCommit ==
    /\ pc = "loop"
    /\ idx > Len(sites)
    /\ LET x == atomic_exit(store, pending, None) IN
       /\ store' = x.store
       /\ error' = x.error
    /\ pending' = <<>>
    /\ pc' = "done"
    /\ UNCHANGED <<siteTable, store0, probeEnv, web, argv, sites, idx, out, probed,
                   results, stdout, stderr, onion_ret, obj, view>>

Next ==
    \/ HandleSelect
    \/ HandleWrite
    \/ ScanPshtt
    \/ ScanTail
    \/ HandleCommit

Spec == Init /\ [][Next]_vars

----------------------------------------------------------------------------
(* is_onion_available applied to every pshtt result and web of the bounds *)

\* most header names of one endpoint
MaxHeaders == 1
\* most <meta> elements of one page
MaxMetas == 1

HeaderNames == {HdrOnionTitle, HdrOnionUpper, ONION_LOCATION, HdrServer}
HeaderSets == {h \in SUBSET HeaderNames : Cardinality(h) <= MaxHeaders}

\* an endpoint of pshtt_results["endpoints"]: headers and url, or one of them
EndpointsOf(key) ==
    {[headers |-> h, url |-> HomeUrl(key)] : h \in HeaderSets}
    \cup {[headers |-> h] : h \in HeaderSets}
    \cup {[url |-> HomeUrl(key)]}

\* pshtt results as far as is_onion_available reads them
DetectInputs ==
    {NoResults}
    \cup {("endpoints" :> ("https" :> e)) : e \in EndpointsOf("https")}
    \cup {("endpoints" :> ("httpswww" :> e)) : e \in EndpointsOf("httpswww")}
    \cup {("endpoints" :> (("https" :> e) @@ ("httpswww" :> f))) :
             e \in EndpointsOf("https"), f \in EndpointsOf("httpswww")}

MetaElements ==
    { [x \in {"http-equiv", "content"} |->
          IF x = "content" THEN "http://site.onion" ELSE "onion-location"],
      [x \in {"http-equiv", "content"} |->
          IF x = "content" THEN "" ELSE "onion-location"],
      [x \in {"http-equiv"} |-> "onion-location"],
      [x \in {"http-equiv", "content"} |->
          IF x = "content" THEN "http://site.onion" ELSE "Onion-Location"],
      [x \in {"http-equiv", "content"} |->
          IF x = "content" THEN "5" ELSE "refresh"],
      [x \in {"name", "content"} |->
          IF x = "content" THEN "http://site.onion" ELSE "onion-location"] }

FetchOutcomes ==
    { [kind |-> "RequestException", metas |-> <<>>],
      [kind |-> "ParserError", metas |-> <<>>] }
    \cup {[kind |-> "page", metas |-> m] : m \in SeqsUpTo(MetaElements, MaxMetas)}

InitDetect ==
    /\ results \in DetectInputs
    /\ web \in [Urls -> FetchOutcomes]
    /\ onion_ret = NotCalled
    /\ pc = "detect"
    /\ siteTable = {}
    /\ store0 = <<>>
    /\ store = <<>>
    /\ probeEnv = <<>>
    /\ argv = <<>>
    /\ sites = <<>>
    /\ idx = 1
    /\ out = <<>>
    /\ pending = <<>>
    /\ probed = <<>>
    /\ stdout = ""
    /\ stderr = ""
    /\ error = None
    /\ obj = NoObj
    /\ view = NoView

\* one call of is_onion_available(results)
Detect ==
    /\ pc = "detect"
    /\ onion_ret' = is_onion_available(results, web)
    /\ pc' = "detected"
    /\ UNCHANGED <<siteTable, store, store0, probeEnv, web, argv, sites, idx, out,
                   pending, probed, results, stdout, stderr, error, obj, view>>

SpecDetect == InitDetect /\ [][Detect]_vars

----------------------------------------------------------------------------
(* Scan instances saved and graded *)

\* the HSTS max-age values tried, around eighteen weeks in seconds
EIGHTEEN_WEEKS == 18 * 7 * 24 * 60 * 60
MaxAgeValues == {None, Some(0), Some(EIGHTEEN_WEEKS - 1), Some(EIGHTEEN_WEEKS),
                 Some(2 * EIGHTEEN_WEEKS)}

\* instances as the constructor leaves them (score at its default)
NewScans ==
    {Scan(SITE_A, TRUE, v, dg, df, h, ma, he, hr, hp, o, "[{}]", "") :
        v \in NullBoolean, dg \in NullBoolean, df \in NullBoolean, h \in NullBoolean,
        ma \in MaxAgeValues, he \in NullBoolean, hr \in NullBoolean,
        hp \in NullBoolean, o \in NullBoolean}

\* instances whose score attribute holds any value of the column's range
ScoredScans ==
    {[Scan(SITE_B, live, v, None, None, None, None, None, None, None, None, "[{}]", "")
        EXCEPT !.score = s] :
        live \in BOOLEAN, v \in NullBoolean, s \in 0..MAX_SCORE}

InitScore ==
    /\ obj \in NewScans \cup ScoredScans
    /\ view = NoView
    /\ pc = "new"
    /\ store0 = <<>>
    /\ store = <<>>
    /\ siteTable = {SITE_A, SITE_B}
    /\ probeEnv = <<>>
    /\ web = <<>>
    /\ argv = <<>>
    /\ sites = <<>>
    /\ idx = 1
    /\ out = <<>>
    /\ pending = <<>>
    /\ probed = <<>>
    /\ results = NoResults
    /\ stdout = ""
    /\ stderr = ""
    /\ error = None
    /\ onion_ret = NotCalled

\* obj.save(), outside any transaction: the row is inserted at once
Save ==
    /\ pc = "new"
    /\ LET r == save(obj) IN
       IF r.raised
       THEN /\ error' = r.exc
            /\ UNCHANGED <<obj, store>>
       ELSE /\ obj' = r.value
            /\ store' = Append(store, r.value)
            /\ UNCHANGED error
    /\ pc' = "saved"
    /\ UNCHANGED <<siteTable, store0, probeEnv, web, argv, sites, idx, out, pending,
                   probed, results, stdout, stderr, onion_ret, view>>

\* a read of obj.grade
ReadGrade ==
    /\ pc \in {"new", "saved"}
    /\ view = NoView
    /\ view' = [read |-> TRUE, score |-> obj.score, value |-> grade(obj)]
    /\ UNCHANGED <<siteTable, store, store0, probeEnv, web, argv, pc, sites, idx, out,
                   pending, probed, results, stdout, stderr, error, onion_ret, obj>>

NextScore ==
    \/ Save
    \/ ReadGrade

SpecScore == InitScore /\ [][NextScore]_vars

----------------------------------------------------------------------------
(* Properties of the command: Spec *)

\* the pshtt call for this domain returns a result
ProbeSucceeds(domain) == ~pshtt(domain, probeEnv).raised

\* the batch is over, a site's probe succeeds and a later site's probe fails
C1_Case ==
    /\ pc = "done"
    /\ \E i \in DOMAIN sites : \E j \in DOMAIN sites :
          /\ i < j
          /\ ProbeSucceeds(sites[i].domain)
          /\ ~ProbeSucceeds(sites[j].domain)

NamesUnknownSite ==
    \E i \in DOMAIN argv : \A r \in siteTable : r.domain # argv[i]

\* C2: when a named domain is not a known site, at any position of the list,
\* pshtt is never launched, no progress line is written, the Scan table stays
\* as it was, and the command ends with CommandError.
C2_UnknownDomainFailsFast ==
    NamesUnknownSite => /\ probed = <<>>
                        /\ out = <<>>
                        /\ pending = <<>>
                        /\ store = store0
                        /\ (pc = "done" => error = Some("CommandError"))

C2_Witness ==
    /\ pc = "done"
    /\ Len(argv) = 2
    /\ \E r \in siteTable : r.domain = argv[1]
    /\ \A r \in siteTable : r.domain # argv[2]
    /\ ProbeSucceeds(argv[1])
    /\ error = Some("CommandError")
    /\ probed = <<>>
    /\ out = <<>>

\* the rows the finished command added to the Scan table
NewRows == SubSeq(store, Len(store0) + 1, Len(store))

\* C3: when the probe of every requested domain succeeds, the command ends
\* without error and has appended exactly one scored row per requested domain,
\* in order.
C3_OneRecordPerDomain ==
    ( /\ pc = "done"
      /\ ~select_sites(argv, siteTable).raised
      /\ \A i \in DOMAIN sites : ProbeSucceeds(sites[i].domain) )
    => /\ error = None
       /\ Len(NewRows) = Len(sites)
       /\ \A i \in DOMAIN sites :
             /\ NewRows[i].site = sites[i]
             /\ NewRows[i].score = score_value(NewRows[i])

----------------------------------------------------------------------------
(* Properties of scoring: SpecScore *)

\* the fields the decision procedure reads are booleans, not null
BooleanFields(o) ==
    \A f \in NULL_BOOLEAN_FIELDS \ {"onion_available"} : o[f] \in {True, False}

\* the decision procedure as stated: 0, the 30/50 baseline, or 70 and bonuses
StatedScore(o) ==
    IF o.valid_https = False THEN 0
    ELSE IF o.defaults_to_https = False
         THEN (IF o.downgrades_https = False THEN 50 ELSE 30)
    ELSE LET bonus(cond, points) == IF cond THEN points ELSE 0 IN
         70 + bonus(o.hsts = True, 4)
            + bonus(o.hsts_max_age # None /\ o.hsts_max_age[1] >= 10886400, 4)
            + bonus(o.hsts_entire_domain = True, 6)
            + bonus(o.hsts_preload_ready = True, 4)
            + bonus(o.hsts_preloaded = True, 4)
            + bonus(o.onion_available = True, 4)

\* C4: for every combination of boolean probe fields, max-age and onion
\* availability, the score a saved Scan carries is the one of the stated
\* decision procedure.
C4_ScoreDecisionProcedure ==
    (pc = "saved" /\ BooleanFields(obj)) =>
        /\ error = None
        /\ obj.score = StatedScore(obj)
        /\ store[Len(store)].score = StatedScore(obj)

C4_Witness ==
    /\ pc = "saved"
    /\ obj.valid_https = True
    /\ obj.downgrades_https = True
    /\ obj.defaults_to_https = True
    /\ obj.hsts = True
    /\ obj.hsts_max_age = Some(10886400)
    /\ obj.hsts_entire_domain = True
    /\ obj.hsts_preload_ready = True
    /\ obj.hsts_preloaded = True
    /\ obj.onion_available = True
    /\ obj.score = 96

\* the grade table as stated: lowest score, highest score, letter, class
GRADE_TABLE ==
    { <<96, 100, "A+", "grade-a">>, <<85, 95, "A", "grade-a">>,
      <<80, 84, "A-", "grade-a">>, <<75, 79, "B+", "grade-b">>,
      <<65, 74, "B", "grade-b">>, <<60, 64, "B-", "grade-b">>,
      <<55, 59, "C+", "grade-c">>, <<45, 54, "C", "grade-c">>,
      <<40, 44, "C-", "grade-c">>, <<35, 39, "D+", "grade-d">>,
      <<25, 34, "D", "grade-d">>, <<20, 24, "D-", "grade-d">>,
      <<0, 19, "F", "grade-f">> }

\* the class by its own boundaries
StatedClass(score) ==
    IF score >= 80 THEN "grade-a"
    ELSE IF score >= 60 THEN "grade-b"
    ELSE IF score >= 40 THEN "grade-c"
    ELSE IF score >= 20 THEN "grade-d"
    ELSE "grade-f"

\* C5: grade is defined for every score 0..100 and gives the letter and the
\* class of the table; a saved Scan whose valid_https is false has score 0,
\* letter F and class grade-f.
C5_GradeTable ==
    /\ view.read =>
          /\ view.score \in 0..100
          /\ \E row \in GRADE_TABLE :
                /\ row[1] <= view.score /\ view.score <= row[2]
                /\ view.value = [grade |-> row[3], class_name |-> Some(row[4])]
          /\ view.value.class_name = Some(StatedClass(view.score))
    /\ (pc = "saved" /\ obj.valid_https = False) =>
          /\ obj.score = 0
          /\ grade(obj) = [grade |-> "F", class_name |-> Some("grade-f")]

C5_Witness ==
    /\ view.read
    /\ view.score = 95
    /\ view.value = [grade |-> "A", class_name |-> Some("grade-a")]

\* C6: whatever the fields hold, null included, the computed score lies in
\* 0..100 and is at most 96: the assertion of _score never fails and save
\* inserts the row.
C6_ScoreRange ==
    /\ score_value(obj) \in 0..96
    /\ pc = "saved" =>
          /\ error = None
          /\ obj.score \in 0..96
          /\ Len(store) = 1
          /\ store[1] = obj

C6_Witness ==
    /\ pc = "saved"
    /\ obj.score = 96
    /\ obj.hsts_max_age = Some(2 * EIGHTEEN_WEEKS)
    /\ error = None
    /\ store = <<obj>>

----------------------------------------------------------------------------
(* Properties of the detector: SpecDetect *)

\* two header names are equal when the case of letters is ignored
SameIgnoringCase(a, b) ==
    /\ Len(a) = Len(b)
    /\ \A i \in DOMAIN a :
          \/ a[i] = b[i]
          \/ a[i] \in 65..90 /\ b[i] = a[i] + 32
          \/ b[i] \in 65..90 /\ a[i] = b[i] + 32

\* the endpoint exists and carries the given field
HasField(key, field) ==
    /\ "endpoints" \in DOMAIN results
    /\ key \in DOMAIN results["endpoints"]
    /\ field \in DOMAIN results["endpoints"][key]

\* the endpoint has an onion-location header, whatever its case
HeaderMatches(key) ==
    /\ HasField(key, "headers")
    /\ \E k \in results["endpoints"][key]["headers"] :
          SameIgnoringCase(k, ONION_LOCATION)

\* C7: when the https or the httpswww endpoint has an onion-location header
\* (any case), is_onion_available returns True and fetches no url, also when
\* only httpswww has the header and https exists without it.
C7_HeaderShortCircuit ==
    (pc = "detected" /\ (HeaderMatches("https") \/ HeaderMatches("httpswww")))
    => onion_ret = [ret |-> True, fetched |-> <<>>]

C7_Witness ==
    /\ pc = "detected"
    /\ HasField("https", "headers")
    /\ HasField("https", "url")
    /\ ~HeaderMatches("https")
    /\ HeaderMatches("httpswww")
    /\ HdrOnionUpper \in results["endpoints"]["httpswww"]["headers"]
    /\ onion_ret = [ret |-> True, fetched |-> <<>>]

\* the GET of this url failed, or its body could not be parsed
FetchFails(w, url) == w[url].kind \in {"RequestException", "ParserError"}

\* C8: for a site whose probe succeeds, whose endpoints have no
\* onion-location header and whose page fetches all fail, the detector
\* returns None, the batch is not aborted, and the row persisted for the site
\* carries onion_available = None.
C8_UnknownPersisted ==
    \A i \in DOMAIN sites :
       LET p == pshtt(sites[i].domain, probeEnv)
           d == is_onion_available(p.value[1], web)
       IN  ( /\ pc = "done"
             /\ Len(sites) = 1
             /\ ~p.raised
             /\ d.fetched # <<>>
             /\ \A n \in DOMAIN d.fetched : FetchFails(web, d.fetched[n]) )
           => /\ d.ret = None
              /\ error = None
              /\ Len(NewRows) = 1
              /\ NewRows[1].site = sites[i]
              /\ NewRows[1].onion_available = None

\* C9: is_onion_available returns False only when no fetch and no parse
\* failed during the call.
C9_FalseOnlyWithoutFailure ==
    (pc = "detected" /\ onion_ret.ret = False)
    => \A n \in DOMAIN onion_ret.fetched : ~FetchFails(web, onion_ret.fetched[n])

\* the page of this url was fetched and holds a meta element whose
\* http-equiv is onion-location
PageHasOnionMeta(url) ==
    /\ web[url].kind = "page"
    /\ \E n \in DOMAIN web[url].metas :
          LET m == web[url].metas[n] IN
          /\ "http-equiv" \in DOMAIN m
          /\ m["http-equiv"] = "onion-location"

\* the same, the element being <meta http-equiv="onion-location" content="...">
PageHasOnionMetaWithContent(url) ==
    /\ web[url].kind = "page"
    /\ \E n \in DOMAIN web[url].metas :
          LET m == web[url].metas[n] IN
          /\ "http-equiv" \in DOMAIN m
          /\ m["http-equiv"] = "onion-location"
          /\ "content" \in DOMAIN m

\* C10: when no header matched, the https page was fetched and has no
\* matching meta element, and the httpswww endpoint exists, the httpswww url
\* is fetched too: the result is None if that fetch fails and True if that
\* page has the meta element.
C10_SecondEndpointStillFetched ==
    ( /\ pc = "detected"
      /\ ~HeaderMatches("https")
      /\ ~HeaderMatches("httpswww")
      /\ HasField("https", "url")
      /\ HasField("httpswww", "url")
      /\ web[HomeUrl("https")].kind = "page"
      /\ ~PageHasOnionMeta(HomeUrl("https")) )
    => /\ onion_ret.fetched = <<HomeUrl("https"), HomeUrl("httpswww")>>
       /\ FetchFails(web, HomeUrl("httpswww")) => onion_ret.ret = None
       /\ PageHasOnionMetaWithContent(HomeUrl("httpswww")) => onion_ret.ret = True

\* the https fetch fails and the httpswww endpoint has a url, no header matching
C11_Case ==
    /\ pc = "detected"
    /\ ~HeaderMatches("https")
    /\ ~HeaderMatches("httpswww")
    /\ HasField("https", "url")
    /\ HasField("httpswww", "url")
    /\ FetchFails(web, HomeUrl("https"))

\* C11 as stated: when no header matched, the https fetch fails and the
\* httpswww page contains a meta element whose http-equiv is onion-location,
\* is_onion_available returns True.
C11_LaterSuccessOverrides_Stated ==
    (C11_Case /\ PageHasOnionMeta(HomeUrl("httpswww"))) => onion_ret.ret = True

\* C11: when no header matched, the https fetch fails and the httpswww page
\* contains a meta element whose http-equiv is onion-location and that has a
\* content attribute, is_onion_available fetches both urls and returns True.
C11_LaterSuccessOverrides ==
    (C11_Case /\ PageHasOnionMetaWithContent(HomeUrl("httpswww")))
    => onion_ret = [ret |-> True,
                    fetched |-> <<HomeUrl("https"), HomeUrl("httpswww")>>]

C11_Witness ==
    /\ C11_Case
    /\ web[HomeUrl("https")].kind = "RequestException"
    /\ PageHasOnionMetaWithContent(HomeUrl("httpswww"))
    /\ onion_ret.ret = True
    /\ Len(onion_ret.fetched) = 2

\* the url whose fetch gave the returned value: the last one fetched
DecidingUrl == onion_ret.fetched[Len(onion_ret.fetched)]

\* a page was fetched and decided the returned value
C14_Case ==
    /\ pc = "detected"
    /\ onion_ret.fetched # <<>>
    /\ web[DecidingUrl].kind = "page"

\* C14 as stated: a fetched page is a match exactly when it contains a meta
\* element whose http-equiv is exactly "onion-location", whatever its content
\* attribute and also without one.
C14_ExistenceOnly_Stated ==
    C14_Case => (onion_ret.ret = True <=> PageHasOnionMeta(DecidingUrl))

\* C14: a fetched page is a match exactly when it contains a meta element
\* whose http-equiv is exactly "onion-location" and that has a content
\* attribute, whatever the value of that attribute (the empty string too);
\* otherwise the page gives False.
C14_ExistenceOnly ==
    C14_Case =>
        /\ onion_ret.ret = True <=> PageHasOnionMetaWithContent(DecidingUrl)
        /\ onion_ret.ret = False <=> ~PageHasOnionMetaWithContent(DecidingUrl)

C14_Witness ==
    /\ C14_Case
    /\ \E n \in DOMAIN web[DecidingUrl].metas :
          LET m == web[DecidingUrl].metas[n] IN
          /\ "http-equiv" \in DOMAIN m
          /\ m["http-equiv"] = "onion-location"
          /\ "content" \in DOMAIN m
          /\ m["content"] = ""
    /\ onion_ret.ret = True

----------------------------------------------------------------------------
(* Properties of the Scan table *)

\* the score of a row recomputed from its other fields, a null field counting
\* as not true
RecomputedScore(row) ==
    LET points(field, n) == IF row[field] = True THEN n ELSE 0 IN
    IF row.valid_https # True THEN 0
    ELSE IF row.defaults_to_https # True
         THEN 50 - points("downgrades_https", 20)
    ELSE 70 + points("hsts", 4) + points("hsts_entire_domain", 6)
            + points("hsts_preload_ready", 4) + points("hsts_preloaded", 4)
            + points("onion_available", 4)
            + (IF row.hsts_max_age # None /\ row.hsts_max_age[1] >= 10886400
               THEN 4 ELSE 0)

\* C12: every row of the Scan table carries the score recomputed from its own
\* fields: save recomputes it, so the score the instance held before (supplied
\* or default) is not what is stored.
C12_ScoreRecomputedAtSave ==
    /\ \A i \in DOMAIN store : store[i].score = RecomputedScore(store[i])
    /\ pc = "saved" => /\ store = <<obj>>
                       /\ obj.score = RecomputedScore(obj)

C12_Witness ==
    /\ pc = "saved"
    /\ view.read
    /\ view.score = 100
    /\ obj.valid_https = True
    /\ store = <<obj>>
    /\ store[1].score = 50

----------------------------------------------------------------------------
(* Further properties of the command: Spec *)

\* the pshtt process of this domain could not be started, exited abnormally,
\* or printed something else than an array of exactly one object
ProbeMustFail(domain) ==
    LET p == probeEnv[domain] IN
    \/ ~p.launch
    \/ p.returncode # 0
    \/ p.json.kind # "array"
    \/ Len(p.json.items) # 1

\* C13: pshtt fails, and the batch is aborted with nothing committed, whenever
\* the process cannot be launched, exits abnormally (also with a parseable
\* array on stdout), or prints something that is not an array of exactly one
\* object.
C13_ProbeFailureCases ==
    \A n \in DOMAIN probed :
        ProbeMustFail(probed[n]) => /\ pc = "done"
                                    /\ error # None
                                    /\ results = NoResults
                                    /\ store = store0

\* C15: the rows the Scan table held before the command started are still
\* there, in place and unchanged, at every moment of the batch and after it,
\* whether it commits or fails.
C15_AppendOnly ==
    /\ Len(store) >= Len(store0)
    /\ SubSeq(store, 1, Len(store0)) = store0

C15_Witness ==
    /\ pc = "done"
    /\ store0 # <<>>
    /\ probed # <<>>
    /\ error # None
    /\ SubSeq(store, 1, Len(store0)) = store0

\* the progress line of a domain
ProgressLine(domain) == <<"Scanning: ", domain>>

\* C16: with no domain argument the domains scanned are exactly the known
\* sites, each once, with one progress line each; with arguments the named
\* domains are scanned, in the order given.
C16_DomainsScanned ==
    ( /\ pc = "done"
      /\ ~select_sites(argv, siteTable).raised
      /\ \A i \in DOMAIN sites : ProbeSucceeds(sites[i].domain) )
    => /\ argv = <<>> =>
             /\ {probed[n] : n \in DOMAIN probed} = {r.domain : r \in siteTable}
             /\ Len(probed) = Cardinality(siteTable)
       /\ argv # <<>> => probed = argv
       /\ out = [n \in DOMAIN probed |-> ProgressLine(probed[n])]

\* C17: the row handed to the Scan table for a domain whose probe succeeded
\* carries in pshtt_stdout and pshtt_stderr what the pshtt process of that
\* domain wrote, and no pending or stored row of the batch carries anything
\* else.
C17_RawOutputIsPshtt ==
    /\ \A n \in DOMAIN pending :
          /\ pending[n].pshtt_stdout = probeEnv[pending[n].site.domain].stdout
          /\ pending[n].pshtt_stderr = probeEnv[pending[n].site.domain].stderr
    /\ ( /\ pc = "done"
         /\ Len(sites) = 1
         /\ ProbeSucceeds(sites[1].domain) )
       => /\ Len(NewRows) = 1
          /\ NewRows[1].pshtt_stdout = probeEnv[sites[1].domain].stdout
          /\ NewRows[1].pshtt_stderr = probeEnv[sites[1].domain].stderr

\* the batch ended by an exception raised while a site was processed
FailedInLoop == pc = "done" /\ error \notin {None, Some("CommandError")}

\* C18: pshtt is launched at most once per listed domain, in list order, each
\* launch after the progress line of its domain; once the processing of the
\* site at position idx fails the command is over: nothing more is launched or
\* written, and exactly idx progress lines (positions 0..idx-1) were printed.
C18_NoRetryStopAtFailure ==
    /\ Len(probed) <= Len(sites)
    /\ probed = [n \in DOMAIN probed |-> sites[n].domain]
    /\ out = [n \in DOMAIN out |-> ProgressLine(sites[n].domain)]
    /\ Len(probed) <= Len(out)
    /\ Len(out) <= Len(probed) + 1
    /\ FailedInLoop => /\ Len(out) = idx
                       /\ Len(probed) = idx
                       /\ ~ENABLED Next

C18_Witness ==
    /\ FailedInLoop
    /\ Len(sites) = 2
    /\ sites[1] # sites[2]
    /\ idx = 1
    /\ probed = <<sites[1].domain>>
    /\ out = <<ProgressLine(sites[1].domain)>>

====
